---- MODULE Spec2Model ----
(***************************************************************************)
(* Model of Masscan_Webscanner.py: the scan tasks of the process pool,     *)
(* the consuming loop of main, the parser and the fetch tasks of the       *)
(* thread pool, over a small file system.                                  *)
(*                                                                         *)
(* Text is modelled as sequences of one-character strings, so that         *)
(* startswith, split and int are computed as Python computes them.         *)
(* A network string is modelled by the fields ipaddress.ip_network reads   *)
(* from it: ver (4, 6, or 0 when the string is no CIDR), plen (prefix      *)
(* length) and num (the network number, i.e. the address shifted right by  *)
(* the host bits).                                                         *)
(***************************************************************************)
EXTENDS Integers, Sequences, FiniteSets, TLC

\* ------------------------------------------------------------------ bounds
NumRanges == 2
MaxClock == 1
ScanWorkers == 2
FetchWorkers == 2

Ranges == 1..NumRanges

\* ------------------------------------------------------------------ text
OPEN == <<"o", "p", "e", "n">>
TCP == <<"t", "c", "p">>
SP == <<" ">>
P80 == <<"8", "0">>
P443 == <<"4", "4", "3">>
HeaderLine == <<"#", "m", "a", "s", "s", "c", "a", "n">>
EndLine == <<"#", " ", "e", "n", "d">>

\* str.startswith
StartsWith(s, p) == Len(s) >= Len(p) /\ SubSeq(s, 1, Len(p)) = p

\* str.split() on whitespace: runs of blanks separate, empty tokens are dropped
RECURSIVE SplitFrom(_, _, _)
SplitFrom(s, i, cur) ==
  IF i > Len(s) THEN (IF cur = <<>> THEN <<>> ELSE <<cur>>)
  ELSE IF s[i] = " "
       THEN (IF cur = <<>> THEN SplitFrom(s, i + 1, <<>>)
             ELSE <<cur>> \o SplitFrom(s, i + 1, <<>>))
       ELSE SplitFrom(s, i + 1, Append(cur, s[i]))

Split(s) == SplitFrom(s, 1, <<>>)

\* str.split('/')[0]: the part before the first '/'
RECURSIVE BeforeSlash(_)
BeforeSlash(s) ==
  IF s = <<>> \/ Head(s) = "/" THEN <<>> ELSE <<Head(s)>> \o BeforeSlash(Tail(s))

Digits == {"0", "1", "2", "3", "4", "5", "6", "7", "8", "9"}

DigitVal(c) ==
  CASE c = "0" -> 0 [] c = "1" -> 1 [] c = "2" -> 2 [] c = "3" -> 3 [] c = "4" -> 4
    [] c = "5" -> 5 [] c = "6" -> 6 [] c = "7" -> 7 [] c = "8" -> 8 [] c = "9" -> 9

\* int(s) raises ValueError unless s is an optional sign followed by digits
AllDigits(s) == s # <<>> /\ \A k \in 1..Len(s) : s[k] \in Digits

IsInt(s) ==
  IF s # <<>> /\ Head(s) \in {"+", "-"} THEN AllDigits(Tail(s)) ELSE AllDigits(s)

RECURSIVE DecVal(_, _)
DecVal(s, acc) == IF s = <<>> THEN acc ELSE DecVal(Tail(s), 10 * acc + DigitVal(Head(s)))

ToInt(s) ==
  IF Head(s) = "-" THEN 0 - DecVal(Tail(s), 0)
  ELSE IF Head(s) = "+" THEN DecVal(Tail(s), 0)
  ELSE DecVal(s, 0)

\* one discovery record of the scanner: open tcp <port>/tcp <host>
RecLine(port, host) == OPEN \o SP \o TCP \o SP \o port \o <<"/">> \o TCP \o SP \o host

\* ------------------------------------------------------------------ ranges
max_range_bits == 63

R4 == [ver |-> 4, plen |-> 24, num |-> 0]
R6 == [ver |-> 6, plen |-> 95, num |-> 0]
RBad == [ver |-> 0, plen |-> 0, num |-> 0]

RangeInputs == {R4, R6, RBad}
MaxIpv6BitsInputs == {32}

RECURSIVE Pow2(_)
Pow2(n) == IF n <= 0 THEN 1 ELSE 2 * Pow2(n - 1)

calculate_address_bits(network) ==
  IF network.ver = 0 THEN 0
  ELSE IF network.ver = 6 THEN 128 - network.plen
  ELSE 32 - network.plen

is_range_too_large(network) == calculate_address_bits(network) > max_range_bits

should_split_ipv6(network, U) ==
  IF network.ver # 6 THEN FALSE ELSE 128 - network.plen > U

split_ipv6_range(network, U) ==
  IF network.ver # 6 THEN <<network>>
  ELSE IF 128 - network.plen <= U THEN <<network>>
  ELSE IF 128 - U > 128 THEN <<network>>
  ELSE [j \in 1..Pow2((128 - U) - network.plen) |->
          [ver |-> 6, plen |-> 128 - U,
           num |-> network.num * Pow2((128 - U) - network.plen) + (j - 1)]]

\* a string that is no CIDR is dropped from the list
process_rangeDropMalformed(network, U) ==
  IF network.ver = 0 THEN <<>>
  ELSE IF is_range_too_large(network) THEN split_ipv6_range(network, U)
  ELSE IF should_split_ipv6(network, U) THEN split_ipv6_range(network, U)
  ELSE <<network>>

\* a string that is no CIDR has 0 bits and is no IPv6 network: it is returned as it is
process_range(network, U) ==
  IF is_range_too_large(network) THEN split_ipv6_range(network, U)
  ELSE IF should_split_ipv6(network, U) THEN split_ipv6_range(network, U)
  ELSE <<network>>

\* ------------------------------------------------------------------ parser
Target(ip, port) == [ip |-> ip, port |-> port]

\* hosts.setdefault(ip, []).append(port) on an insertion-ordered dict
DictAppend(hosts, ip, port) ==
  IF \E k \in 1..Len(hosts) : hosts[k].ip = ip
  THEN [k \in 1..Len(hosts) |->
          IF hosts[k].ip = ip
          THEN [ip |-> ip, ports |-> Append(hosts[k].ports, port)]
          ELSE hosts[k]]
  ELSE Append(hosts, [ip |-> ip, ports |-> <<port>>])

\* the body of the loop for one line, parts being line.split()
ParseLine(line, parts, hosts) ==
  IF ~StartsWith(line, OPEN) THEN hosts
  ELSE IF Len(parts) < 4 THEN hosts
  ELSE IF ~IsInt(BeforeSlash(parts[3])) THEN hosts
  ELSE DictAppend(hosts, parts[4], ToInt(BeforeSlash(parts[3])))

\* the loop over the lines of the list file (the dict after each line is bound
\* as a value, so that it is computed once per line)
RECURSIVE ParseLines(_, _)
ParseLines(lines, hosts) ==
  IF lines = <<>> THEN hosts
  ELSE CHOOSE r \in {ParseLines(Tail(lines), h) :
                       h \in {ParseLine(Head(lines), p, hosts) : p \in {Split(Head(lines))}}} : TRUE

\* [(ip, port) for ip, ports in hosts.items() for port in ports]
RECURSIVE FlattenHosts(_)
FlattenHosts(hosts) ==
  IF hosts = <<>> THEN <<>>
  ELSE [k \in 1..Len(Head(hosts).ports) |-> Target(Head(hosts).ip, Head(hosts).ports[k])]
       \o FlattenHosts(Tail(hosts))

\* sorted(ports)
RECURSIVE InsertSorted(_, _)
InsertSorted(s, x) ==
  IF s = <<>> THEN <<x>>
  ELSE IF x < Head(s) THEN <<x>> \o s
  ELSE <<Head(s)>> \o InsertSorted(Tail(s), x)

RECURSIVE Sorted(_)
Sorted(s) == IF s = <<>> THEN <<>> ELSE InsertSorted(Sorted(SubSeq(s, 1, Len(s) - 1)), s[Len(s)])

\* the lines "<ip>: open ports -> <sorted ports>" of the summary file
SummaryOf(hosts) == [k \in 1..Len(hosts) |-> [ip |-> hosts[k].ip, ports |-> Sorted(hosts[k].ports)]]

parse(lines) == FlattenHosts(ParseLines(lines, <<>>))

\* set(ip for ip, _ in targets)
HostSet(targets) == {targets[k].ip : k \in 1..Len(targets)}

\* ------------------------------------------------------------------ scanner
DigitChar(n) ==
  CASE n = 0 -> "0" [] n = 1 -> "1" [] n = 2 -> "2" [] n = 3 -> "3" [] n = 4 -> "4"
    [] n = 5 -> "5" [] n = 6 -> "6" [] n = 7 -> "7" [] n = 8 -> "8" [] OTHER -> "9"

\* a host address inside the network: 10.0.0.5 for the IPv4 range, f::<num> for IPv6
HostIn(net) ==
  IF net.ver = 4 THEN <<"1", "0", ".", "0", ".", "0", ".", "5">>
  ELSE <<"f", ":", ":", DigitChar(net.num)>>

\* what a scanner invocation that exits 0 can leave in its -oL file
ScanOutputs(net) ==
  IF net.ver = 4
  THEN {<<HeaderLine, EndLine>>,
        <<HeaderLine, RecLine(P80, HostIn(net)), RecLine(P443, HostIn(net)),
          RecLine(P80, HostIn(net)), EndLine>>}
  ELSE {<<HeaderLine, EndLine>>,
        <<HeaderLine, RecLine(P80, HostIn(net)), EndLine>>}

\* what a scanner invocation that exits non-zero can leave behind
PartialOutputs(net) == {<<HeaderLine, RecLine(P80, HostIn(net))>>}

\* subprocess.run(cmd, check=True): exit 0 with the output file written, or
\* CalledProcessError with no file or a partial file; a string that is no
\* CIDR is rejected by the scanner
ScanOutcomes(net) ==
  IF net.ver = 0 THEN {[exit |-> 1, wrote |-> FALSE, out |-> <<>>]}
  ELSE {[exit |-> 0, wrote |-> TRUE, out |-> c] : c \in ScanOutputs(net)}
       \cup {[exit |-> 1, wrote |-> FALSE, out |-> <<>>]}
       \cup {[exit |-> 1, wrote |-> TRUE, out |-> c] : c \in PartialOutputs(net)}

\* ------------------------------------------------------------------ state
VARIABLES
  ranges,         \* the range list read from the ranges file
  dry_run,        \* args.dry_run
  max_ipv6_bits,  \* args.max_ipv6_bits
  now,            \* the wall clock, in seconds
  scan,           \* per range: the scan task of the process pool
  inv,            \* per range: the scanner invocations made so far, in order
  files,          \* the output directory: path -> lines
  pc,             \* main: "wait" (in as_completed), "fetch" (draining the pool), "done"
  cur,            \* the range whose targets are being fetched, 0 if none
  rep,            \* per range: what main logged for it
  tasks           \* the fetch tasks of the current thread pool

vars == <<ranges, dry_run, max_ipv6_bits, now, scan, inv, files, pc, cur, rep, tasks>>

\* f"{prefix}_{timestamp}.lst" (part 0) and f"{prefix}_{timestamp}_part_{i+1}.lst":
\* run() reads the timestamp once, so the paths of one task differ in the part
\* and the paths of two tasks differ in the prefix range_<i>
OutPath(i, part) == [prefix |-> i, part |-> part]

CombinedHeader == <<"#", " ", "C">>
CompletedHeader == <<"#", " ", "S">>

Init ==
  /\ ranges \in [Ranges -> RangeInputs]
  /\ dry_run \in BOOLEAN
  /\ max_ipv6_bits \in MaxIpv6BitsInputs
  /\ now = 0
  /\ scan = [i \in Ranges |-> [st |-> "pending", subs |-> <<>>, k |-> 0]]
  /\ inv = [i \in Ranges |-> <<>>]
  /\ files = <<>>
  /\ pc = "wait"
  /\ cur = 0
  /\ rep = [i \in Ranges |-> [status |-> "none", iter |-> 0, hosts |-> 0, targets |-> 0,
                              fetched |-> 0, summary |-> <<>>]]
  /\ tasks = <<>>

\* the clock advances
Tick ==
  /\ now < MaxClock
  /\ now' = now + 1
  /\ UNCHANGED <<ranges, dry_run, max_ipv6_bits, scan, inv, files, pc, cur, rep, tasks>>

\* ------------------------------------------------------------------ scan tasks
Running == {i \in Ranges : scan[i].st = "running"}

\* a pool worker takes the next submitted call: run() up to the sub-range loop
ScanStart(i) ==
  /\ scan[i].st = "pending"
  /\ \A j \in Ranges : j < i => scan[j].st # "pending"
  /\ Cardinality(Running) < ScanWorkers
  /\ scan' = [scan EXCEPT ![i] = [st |-> "running",
                                  subs |-> process_range(ranges[i], max_ipv6_bits),
                                  k |-> 0]]
  /\ UNCHANGED <<ranges, dry_run, max_ipv6_bits, now, inv, files, pc, cur, rep, tasks>>

\* run_single_range: the state after one call, for each outcome of the scanner
run_single_range(i, net, output_file, o) ==
  IF dry_run THEN [files |-> files, inv |-> inv]
  ELSE [files |-> IF o.wrote THEN (output_file :> o.out) @@ files ELSE files,
        inv |-> [inv EXCEPT ![i] = Append(@, [net |-> net, exit |-> o.exit])]]

\* a failed call ends the task: the exception leaves run()
AfterCallAbort(task, o) ==
  IF o.exit # 0 /\ ~dry_run THEN [task EXCEPT !.st = "done"] ELSE [task EXCEPT !.k = @ + 1]

\* the task after one call of run_single_range in the loop: CalledProcessError is
\* caught inside the call, so the loop goes on to the next sub-range
AfterCall(task, o) == [task EXCEPT !.k = @ + 1]

\* one pass of the loop over ranges_to_scan
ScanSub(i) ==
  /\ scan[i].st = "running"
  /\ Len(scan[i].subs) > 1
  /\ scan[i].k < Len(scan[i].subs)
  /\ \E o \in ScanOutcomes(scan[i].subs[scan[i].k + 1]) :
       LET r == run_single_range(i, scan[i].subs[scan[i].k + 1],
                                 OutPath(i, scan[i].k + 1), o)
       IN /\ files' = r.files
          /\ inv' = r.inv
          /\ scan' = [scan EXCEPT ![i] = AfterCall(scan[i], o)]
  /\ UNCHANGED <<ranges, dry_run, max_ipv6_bits, now, pc, cur, rep, tasks>>

\* the non-comment lines of the temporary files that exist, in temp_files order
RECURSIVE MergeLines(_, _, _)
MergeLines(fs, i, parts) ==
  IF parts = <<>> THEN <<>>
  ELSE (IF OutPath(i, Head(parts)) \in DOMAIN fs
        THEN SelectSeq(fs[OutPath(i, Head(parts))], LAMBDA l : ~StartsWith(l, <<"#">>))
        ELSE <<>>)
       \o MergeLines(fs, i, Tail(parts))

\* the main file is written and the temporary files are left in place
CombineKeepParts(fs, i, n) ==
  LET body == MergeLines(fs, i, [k \in 1..n |-> k])
  IN (OutPath(i, 0) :> (<<CombinedHeader, CompletedHeader>> \o body)) @@ fs

\* the file system once the main file is written and the temporary files unlinked
Combine(fs, i, n) ==
  LET temp == {OutPath(i, k) : k \in 1..n}
      body == MergeLines(fs, i, [k \in 1..n |-> k])
      kept == [p \in DOMAIN fs \ temp |-> fs[p]]
  IN (OutPath(i, 0) :> (<<CombinedHeader, CompletedHeader>> \o body)) @@ kept

\* after the loop: combine unless dry run, return main_output_file
ScanMerge(i) ==
  /\ scan[i].st = "running"
  /\ Len(scan[i].subs) > 1
  /\ scan[i].k = Len(scan[i].subs)
  /\ files' = IF dry_run THEN files ELSE Combine(files, i, Len(scan[i].subs))
  /\ scan' = [scan EXCEPT ![i].st = "done"]
  /\ UNCHANGED <<ranges, dry_run, max_ipv6_bits, now, inv, pc, cur, rep, tasks>>

\* the single-range branch: one call on ip_range, return main_output_file
ScanSingle(i) ==
  /\ scan[i].st = "running"
  /\ Len(scan[i].subs) = 1
  /\ \E o \in ScanOutcomes(ranges[i]) :
       LET r == run_single_range(i, ranges[i], OutPath(i, 0), o)
       IN /\ files' = r.files
          /\ inv' = r.inv
  /\ scan' = [scan EXCEPT ![i].st = "done", ![i].k = 1]
  /\ UNCHANGED <<ranges, dry_run, max_ipv6_bits, now, pc, cur, rep, tasks>>

\* ------------------------------------------------------------------ main
\* parser.parse(list_file, dirs['output']) and the log line of the range
ParsedReport(hosts, targets) ==
  [status |-> "ok", iter |-> 1,
   hosts |-> Cardinality(HostSet(targets)), targets |-> Len(targets),
   fetched |-> 0, summary |-> SummaryOf(hosts)]

\* what main logs for a range whose processing raised
ErrorReport == [status |-> "error", iter |-> 1, hosts |-> 0, targets |-> 0,
                fetched |-> 0, summary |-> <<>>]

\* one call per distinct target: for t in set(targets)
SubmittedDistinct(targets) ==
  LET idx == {k \in 1..Len(targets) : \A j \in 1..(k - 1) : targets[j] # targets[k]}
      nth(n) == CHOOSE k \in idx : Cardinality({j \in idx : j <= k}) = n
  IN [n \in 1..Cardinality(idx) |->
        [ip |-> targets[nth(n)].ip, port |-> targets[nth(n)].port, st |-> "queued",
         ts |-> 0, page |-> "none", shot |-> "none", written |-> {}]]

\* [thread_exec.submit(fetcher.fetch, t) for t in targets]
Submitted(targets) ==
  [k \in 1..Len(targets) |->
     [ip |-> targets[k].ip, port |-> targets[k].port, st |-> "queued", ts |-> 0,
      page |-> "none", shot |-> "none", written |-> {}]]

\* the exception leaves the loop and ends main
ProcessingErrorUncaught(i) ==
  /\ rep' = [rep EXCEPT ![i] = ErrorReport]
  /\ pc' = "crashed"
  /\ UNCHANGED <<cur, tasks>>

\* except Exception as e: the error is logged and the loop goes on
ProcessingError(i) ==
  /\ rep' = [rep EXCEPT ![i] = ErrorReport]
  /\ UNCHANGED <<pc, cur, tasks>>

\* a future is taken whether or not its call has returned
YieldableEarly(i) == rep[i].iter = 0

\* which scan futures as_completed can yield next
Yieldable(i) == rep[i].iter = 0 /\ scan[i].st = "done"

\* the next future is taken while the fetch calls of the last one are still running
ConsumeOverlapping(i) ==
  /\ pc \in {"wait", "fetch"}
  /\ Yieldable(i)
  /\ IF OutPath(i, 0) \notin DOMAIN files
     THEN ProcessingError(i)
     ELSE \E hosts \in {ParseLines(files[OutPath(i, 0)], <<>>)} :
            \E targets \in {FlattenHosts(hosts)} :
              /\ rep' = [rep EXCEPT ![i] = ParsedReport(hosts, targets)]
              /\ IF targets # <<>>
                 THEN /\ tasks' = Submitted(targets)
                      /\ pc' = "fetch"
                      /\ cur' = i
                 ELSE UNCHANGED <<pc, cur, tasks>>
  /\ UNCHANGED <<ranges, dry_run, max_ipv6_bits, now, scan, inv, files>>

\* one pass of the loop over as_completed(scan_futures), up to the fetch loop
Consume(i) ==
  /\ pc = "wait"
  /\ Yieldable(i)
  /\ IF OutPath(i, 0) \notin DOMAIN files
     THEN ProcessingError(i)
     ELSE \E hosts \in {ParseLines(files[OutPath(i, 0)], <<>>)} :
            \E targets \in {FlattenHosts(hosts)} :
              /\ rep' = [rep EXCEPT ![i] = ParsedReport(hosts, targets)]
              /\ IF targets # <<>>
                 THEN /\ tasks' = Submitted(targets)
                      /\ pc' = "fetch"
                      /\ cur' = i
                 ELSE UNCHANGED <<pc, cur, tasks>>
  /\ UNCHANGED <<ranges, dry_run, max_ipv6_bits, now, scan, inv, files>>

\* the loop over as_completed(fetch_futures) ends and the thread pool shuts down
Drain ==
  /\ pc = "fetch"
  /\ \A t \in 1..Len(tasks) : tasks[t].st \in {"done", "raised"}
  /\ rep' = [rep EXCEPT ![cur].fetched =
                          Cardinality({t \in 1..Len(tasks) : tasks[t].st = "done"})]
  /\ tasks' = <<>>
  /\ pc' = "wait"
  /\ cur' = 0
  /\ UNCHANGED <<ranges, dry_run, max_ipv6_bits, now, scan, inv, files>>

\* every scan future was yielded: the process pool shuts down, "Scan completed successfully"
Finish ==
  /\ pc = "wait"
  /\ \A i \in Ranges : rep[i].iter > 0
  /\ pc' = "done"
  /\ UNCHANGED <<ranges, dry_run, max_ipv6_bits, now, scan, inv, files, cur, rep, tasks>>

\* ------------------------------------------------------------------ fetch tasks
RenderOutcomes == {"ok", "timeout", "error"}

\* ip.replace('.', '_').replace(':', '_')
safe_ip(ip) == [k \in 1..Len(ip) |-> IF ip[k] \in {".", ":"} THEN "_" ELSE ip[k]]

\* host_dir / f"{safe_ip}_page_{port}_{ts}.html" and ..._screenshot_{port}_{ts}.png
ArtifactPath(task, kind) ==
  [dir |-> safe_ip(task.ip), port |-> task.port, ts |-> task.ts, kind |-> kind]

Active == {t \in 1..Len(tasks) : tasks[t].st \in {"page", "shot"}}

\* one thread per target, with no pool to bound them
FetchStartUnbounded(t) ==
  /\ pc = "fetch"
  /\ t \in 1..Len(tasks)
  /\ tasks[t].st = "queued"
  /\ tasks' = [tasks EXCEPT ![t].st = "page", ![t].ts = now]
  /\ UNCHANGED <<ranges, dry_run, max_ipv6_bits, now, scan, inv, files, pc, cur, rep>>

\* a pool thread takes the next queued call: fetch() up to browser.open
FetchStart(t) ==
  /\ pc = "fetch"
  /\ t \in 1..Len(tasks)
  /\ tasks[t].st = "queued"
  /\ \A u \in 1..Len(tasks) : u < t => tasks[u].st # "queued"
  /\ Cardinality(Active) < FetchWorkers
  /\ tasks' = [tasks EXCEPT ![t].st = "page", ![t].ts = now]
  /\ UNCHANGED <<ranges, dry_run, max_ipv6_bits, now, scan, inv, files, pc, cur, rep>>

\* browser.open(url) and html_file.write_text: any exception goes to the outer except
PageStep(task, o) ==
  IF o = "ok"
  THEN [task EXCEPT !.page = o, !.written = @ \cup {"page"}, !.st = "shot"]
  ELSE [task EXCEPT !.page = o, !.st = "done", !.ts = 0]

FetchPage(t) ==
  /\ t \in 1..Len(tasks)
  /\ tasks[t].st = "page"
  /\ \E o \in RenderOutcomes : tasks' = [tasks EXCEPT ![t] = PageStep(tasks[t], o)]
  /\ UNCHANGED <<ranges, dry_run, max_ipv6_bits, now, scan, inv, files, pc, cur, rep>>

\* only TimeoutException is caught: any other exception leaves fetch()
ShotStepNarrow(task, o) ==
  IF o = "ok"
  THEN [task EXCEPT !.shot = o, !.written = @ \cup {"shot"}, !.st = "done", !.ts = 0]
  ELSE IF o = "timeout" THEN [task EXCEPT !.shot = o, !.st = "done", !.ts = 0]
  ELSE [task EXCEPT !.shot = o, !.st = "raised", !.ts = 0]

\* driver.get and save_screenshot: TimeoutException is caught by the inner except,
\* anything else by the outer one, after driver.quit(); fetch() returns None
ShotStep(task, o) ==
  IF o = "ok"
  THEN [task EXCEPT !.shot = o, !.written = @ \cup {"shot"}, !.st = "done", !.ts = 0]
  ELSE [task EXCEPT !.shot = o, !.st = "done", !.ts = 0]

FetchShot(t) ==
  /\ t \in 1..Len(tasks)
  /\ tasks[t].st = "shot"
  /\ \E o \in RenderOutcomes : tasks' = [tasks EXCEPT ![t] = ShotStep(tasks[t], o)]
  /\ UNCHANGED <<ranges, dry_run, max_ipv6_bits, now, scan, inv, files, pc, cur, rep>>

\* ------------------------------------------------------------------ specification
ScanStep == \E i \in Ranges : ScanStart(i) \/ ScanSub(i) \/ ScanMerge(i) \/ ScanSingle(i)

MainStep == (\E i \in Ranges : Consume(i)) \/ Drain \/ Finish

FetchStep == \E t \in DOMAIN tasks : FetchStart(t) \/ FetchPage(t) \/ FetchShot(t)

Next == Tick \/ ScanStep \/ MainStep \/ FetchStep

Spec == Init /\ [][Next]_vars

\* the scheduling the executors give: every submitted call is run, every scanner
\* and renderer call returns, and main is never starved
FairSpec == Spec /\ WF_vars(ScanStep) /\ WF_vars(MainStep) /\ WF_vars(FetchStep)

\* the fetch steps that always return: picking up a queued call, and the screenshot
\* step, whose driver.get is bounded by set_page_load_timeout(self.timeout)
BoundedFetchStep == \E t \in DOMAIN tasks : FetchStart(t) \/ FetchShot(t)

\* the scheduling the code itself guarantees when a server may stay silent:
\* browser.open(url) is called without a timeout, so nothing makes it return
TimeoutSpec == Spec /\ WF_vars(ScanStep) /\ WF_vars(MainStep) /\ WF_vars(BoundedFetchStep)

\* ------------------------------------------------------------------ the splitter alone
\* the largest split, in bits, the inputs below ask for
MaxSplitBits == 4

N6(plen, num) == [ver |-> 6, plen |-> plen, num |-> num]

\* range strings: ::/120 and ::100/120, IPv6 networks of 62 to 65 host bits,
\* 10.0.0.0/24, and a string that is no CIDR
SplitNets ==
  {N6(120, 0), N6(120, 1), N6(66, 0), N6(65, 1), N6(64, 0), N6(64, 1), N6(63, 0), R4, RBad}

\* values of --max-ipv6-bits, which argparse takes as any int
SplitLimits == {4, 61, 62, 63, 64, 65}

\* the ranges file and the option hold any of these, split by at most MaxSplitBits bits
SplitInit ==
  /\ max_ipv6_bits \in SplitLimits
  /\ ranges \in [Ranges -> {n \in SplitNets :
                              n.ver = 6 => (128 - n.plen) - max_ipv6_bits <= MaxSplitBits}]
  /\ dry_run \in BOOLEAN
  /\ now = 0
  /\ scan = [i \in Ranges |-> [st |-> "pending", subs |-> <<>>, k |-> 0]]
  /\ inv = [i \in Ranges |-> <<>>]
  /\ files = <<>>
  /\ pc = "wait"
  /\ cur = 0
  /\ rep = [i \in Ranges |-> [status |-> "none", iter |-> 0, hosts |-> 0, targets |-> 0,
                              fetched |-> 0, summary |-> <<>>]]
  /\ tasks = <<>>

\* run() up to the sub-range loop: ranges_to_scan = self.splitter.process_range(ip_range)
SplitNext == \E i \in Ranges : ScanStart(i)

SplitSpec == SplitInit /\ [][SplitNext]_vars

\* ------------------------------------------------------------------ the parser alone
\* the longest list file, in lines
MaxLines == 3

HostA == <<"1", "0", ".", "0", ".", "0", ".", "5">>
HostB == <<"f", ":", ":", "1">>

\* lines a list file can hold: records of two hosts, a line whose first word is
\* "opened", a record after a leading blank, a record cut after the port, a record
\* whose port is no number, and a comment
LineInputs ==
  {RecLine(P80, HostA), RecLine(P443, HostA), RecLine(P80, HostB),
   OPEN \o <<"e", "d">> \o SP \o TCP \o SP \o P80 \o <<"/">> \o TCP \o SP \o HostA,
   SP \o RecLine(P80, HostA),
   OPEN \o SP \o TCP \o SP \o P80,
   RecLine(<<"x">>, HostA),
   HeaderLine}

ListFiles == UNION {[1..n -> LineInputs] : n \in 0..MaxLines}

\* every scan task has returned the path of a list file; the files hold the same lines
ParseInit ==
  /\ ranges = [i \in Ranges |-> R4]
  /\ dry_run = FALSE
  /\ max_ipv6_bits \in MaxIpv6BitsInputs
  /\ now = 0
  /\ scan = [i \in Ranges |-> [st |-> "done", subs |-> <<R4>>, k |-> 1]]
  /\ inv = [i \in Ranges |-> <<[net |-> R4, exit |-> 0]>>]
  /\ \E f \in ListFiles : files = [p \in {OutPath(i, 0) : i \in Ranges} |-> f]
  /\ pc = "wait"
  /\ cur = 0
  /\ rep = [i \in Ranges |-> [status |-> "none", iter |-> 0, hosts |-> 0, targets |-> 0,
                              fetched |-> 0, summary |-> <<>>]]
  /\ tasks = <<>>

\* one pass of the loop of main in which summary_file.open('w') or out.write raises
\* OSError: the exception leaves parse() before its return, and main logs it
ConsumeSummaryError(i) ==
  /\ pc = "wait"
  /\ Yieldable(i)
  /\ OutPath(i, 0) \in DOMAIN files
  /\ ProcessingError(i)
  /\ UNCHANGED <<ranges, dry_run, max_ipv6_bits, now, scan, inv, files>>

ParseNext == \E i \in Ranges : Consume(i) \/ ConsumeSummaryError(i)

ParseSpec == ParseInit /\ [][ParseNext]_vars

\* ------------------------------------------------------------------ claims
Processed(i) == rep[i].iter > 0

\* C1: in dry-run mode the scanner is never invoked, and every range main has
\* processed was parsed successfully with zero targets, not reported as an error.
C1_DryRunPipeline ==
  dry_run =>
    /\ \A i \in Ranges : inv[i] = <<>>
    /\ \A i \in Ranges : Processed(i) => rep[i].status = "ok" /\ rep[i].targets = 0

\* C2: for every finished fetch, a timeout or error of the page-content step did not
\* keep the screenshot step from being attempted, and a timeout or error of the
\* screenshot step did not keep the page from being persisted.
C2_SubOpsIndependent ==
  \A t \in DOMAIN tasks :
    tasks[t].st = "done" =>
      /\ tasks[t].page \in {"timeout", "error"} => tasks[t].shot # "none"
      /\ tasks[t].shot \in {"timeout", "error"} => "page" \in tasks[t].written

\* C3: fetch never raises to its caller, whatever the renderer does, and once the
\* fetch loop of a range is over every one of its targets was fetched to the end.
C3_FetchNeverRaises ==
  /\ \A t \in DOMAIN tasks : tasks[t].st # "raised"
  /\ \A i \in Ranges :
       rep[i].status = "ok" /\ cur # i => rep[i].fetched = rep[i].targets

C3_Witness ==
  /\ \E t, u \in DOMAIN tasks :
       /\ tasks[t].st = "done" /\ tasks[t].shot = "error"
       /\ tasks[u].st = "done" /\ tasks[u].page = "timeout"
  /\ \A t \in DOMAIN tasks : tasks[t].st = "done"

FailedHosts(i) == {HostIn(inv[i][k].net) : k \in {n \in 1..Len(inv[i]) : inv[i][n].exit # 0}}

MainFile(i) == OutPath(i, 0)

\* C5: the merged output of a split range holds no discovery record of a sub-range
\* whose scanner call failed, and no target of such a sub-range is fetched.
C5_MergeOnlySucceeded ==
  \A i \in Ranges :
    scan[i].st = "done" /\ Len(scan[i].subs) > 1 =>
      /\ MainFile(i) \in DOMAIN files =>
           HostSet(parse(files[MainFile(i)])) \cap FailedHosts(i) = {}
      /\ cur = i => \A t \in DOMAIN tasks : tasks[t].ip \notin FailedHosts(i)

\* C6: under fair scheduling the run reaches its final step, with every range
\* scanned to the end and processed by main exactly once.
C6_RunCompletes ==
  <>(pc = "done" /\ \A i \in Ranges : rep[i].iter = 1 /\ scan[i].st = "done")

C6_Witness ==
  /\ pc = "done"
  /\ \E i, j \in Ranges : rep[i].status = "error" /\ rep[j].status = "ok" /\ rep[j].fetched > 0

EntirelyFailed(i) == inv[i] # <<>> /\ \A k \in 1..Len(inv[i]) : inv[i][k].exit # 0

Succeeded(i) == inv[i] # <<>> /\ \A k \in 1..Len(inv[i]) : inv[i][k].exit = 0

\* C7: when the run is over, a range whose scanner calls all failed is reported as
\* failed, and a range whose calls all succeeded is reported with the number of
\* distinct hosts and of targets of its output.
C7_FailedRangeReported ==
  pc = "done" =>
    \A i, j \in Ranges :
      EntirelyFailed(i) /\ Succeeded(j) =>
        /\ rep[i].status = "error"
        /\ rep[j].status = "ok"
        /\ rep[j].targets = Len(parse(files[MainFile(j)]))
        /\ rep[j].hosts = Cardinality(HostSet(parse(files[MainFile(j)])))

\* C8: fetch tasks exist only for a range whose scan has completed and whose output
\* main has parsed, and main parses no range before its scan has completed.
C8_HandoffOrdering ==
  /\ tasks # <<>> => cur \in Ranges /\ scan[cur].st = "done" /\ rep[cur].status = "ok"
  /\ \A i \in Ranges : Processed(i) => scan[i].st = "done"

\* fetches of one range are active while the scan of another range is still running
C8_Witness ==
  /\ Active # {}
  /\ \E j \in Ranges : j # cur /\ scan[j].st = "running"

\* C9: the number of fetch tasks active at once never exceeds the worker count.
C9_FetchBound == Cardinality(Active) <= FetchWorkers

C9_Witness ==
  /\ Cardinality(Active) = FetchWorkers
  /\ \E t \in DOMAIN tasks : tasks[t].st = "queued"

\* the paths a running scan task writes, and those an active fetch task has yet to write
ScanWrites(i) ==
  IF scan[i].st = "running" THEN {OutPath(i, k) : k \in 0..Len(scan[i].subs)} ELSE {}

FetchWrites(t) ==
  IF tasks[t].st = "page" THEN {ArtifactPath(tasks[t], "page"), ArtifactPath(tasks[t], "screenshot")}
  ELSE IF tasks[t].st = "shot" THEN {ArtifactPath(tasks[t], "screenshot")}
  ELSE {}

\* C10: no two concurrently active tasks write the same path: running scans write
\* disjoint files, and active fetch tasks write distinct artifact paths.
C10_NoFileContention ==
  /\ \A i, j \in Ranges : i # j => ScanWrites(i) \cap ScanWrites(j) = {}
  /\ \A t, u \in DOMAIN tasks : t # u => FetchWrites(t) \cap FetchWrites(u) = {}

Min(a, b) == IF a < b THEN a ELSE b

\* the smaller of the scanner's hard limit H and the user limit U
Limit == Min(max_range_bits, max_ipv6_bits)

\* the ranges whose run() has computed ranges_to_scan
Normalized == {i \in Ranges : scan[i].st # "pending"}

\* C11: an IPv6 range of more than min(H,U) host bits is returned as
\* 2^(bits - min(H,U)) sub-ranges of min(H,U) host bits each, in ascending address
\* order, which together cover the range exactly once.
C11_SplitPartitions ==
  \A i \in Normalized :
    ranges[i].ver = 6 /\ calculate_address_bits(ranges[i]) > Limit =>
      LET n == Pow2(calculate_address_bits(ranges[i]) - Limit)
      IN /\ Len(scan[i].subs) = n
         /\ \A j \in 1..Len(scan[i].subs) :
              scan[i].subs[j] = N6(128 - Limit, ranges[i].num * n + (j - 1))

\* C12: whatever the two limits are, every range run() is about to pass to the
\* scanner has at most H host bits, and an IPv6 range that exceeded H or U comes
\* back as ranges of at most min(H,U) host bits.
C12_HardLimitRespected ==
  \A i \in Normalized :
    ranges[i].ver # 0 =>
      \A k \in 1..Len(scan[i].subs) :
        /\ calculate_address_bits(scan[i].subs[k]) <= max_range_bits
        /\ ranges[i].ver = 6 /\ calculate_address_bits(ranges[i]) > Limit =>
             calculate_address_bits(scan[i].subs[k]) <= Limit

\* C13: a range string that is no CIDR comes back from process_range as the
\* one-element list holding that string; when not in dry-run mode the scanner is
\* called on it exactly once, the call fails, and main reports the range as failed.
C13_MalformedPassedThrough ==
  \A i \in Ranges :
    ranges[i].ver = 0 =>
      /\ i \in Normalized => scan[i].subs = <<ranges[i]>>
      /\ ~dry_run /\ scan[i].st # "done" => inv[i] = <<>>
      /\ ~dry_run /\ scan[i].st = "done" => inv[i] = <<[net |-> ranges[i], exit |-> 1]>>
      /\ ~dry_run /\ Processed(i) => rep[i].status = "error"

C13_Witness ==
  \E i \in Ranges :
    /\ ranges[i].ver = 0 /\ ~dry_run
    /\ inv[i] = <<[net |-> ranges[i], exit |-> 1]>>
    /\ rep[i].status = "error"

\* a discovery record: the first word is "open", there are at least four words, and
\* the third word up to its '/' is a number
IsRecord(line) ==
  /\ Len(Split(line)) >= 4
  /\ Split(line)[1] = OPEN
  /\ IsInt(BeforeSlash(Split(line)[3]))

RecHost(line) == Split(line)[4]

RecPort(line) == ToInt(BeforeSlash(Split(line)[3]))

ListFile(i) == files[MainFile(i)]

\* the ranges whose list file parse() has read and returned targets for
Parsed == {i \in Ranges : rep[i].status = "ok"}

\* C14: parse returns one target for each line that is a discovery record and
\* none for any other line, in particular none for a line whose first word only
\* begins with "open".
C14_FirstTokenRule ==
  \A i \in Parsed :
    rep[i].targets = Cardinality({k \in 1..Len(ListFile(i)) : IsRecord(ListFile(i)[k])})

\* the hosts of the records, each once, in the order in which they first appear
RECURSIVE FirstSeen(_, _)
FirstSeen(recs, seen) ==
  IF recs = <<>> THEN <<>>
  ELSE IF RecHost(Head(recs)) \in seen THEN FirstSeen(Tail(recs), seen)
  ELSE <<RecHost(Head(recs))>> \o FirstSeen(Tail(recs), seen \cup {RecHost(Head(recs))})

\* the targets of host h, one per record, in the order of the records
TargetsOf(recs, h) ==
  LET r == SelectSeq(recs, LAMBDA l : RecHost(l) = h)
  IN [k \in 1..Len(r) |-> Target(h, RecPort(r[k]))]

RECURSIVE ByHost(_, _)
ByHost(recs, hs) ==
  IF hs = <<>> THEN <<>> ELSE TargetsOf(recs, Head(hs)) \o ByHost(recs, Tail(hs))

\* one target per discovery record, duplicates kept: hosts in first-seen order,
\* the ports of a host in discovery order
ExpectedTargets(lines) ==
  LET recs == SelectSeq(lines, IsRecord) IN ByHost(recs, FirstSeen(recs, {}))

\* C15: the targets parse returns, which main submits in that order, are exactly
\* one per discovery record, hosts in first-seen order and the ports of each host
\* in discovery order, with duplicates kept; every parse of the same lines gives
\* the same count.
C15_OrderPreserving ==
  /\ \A i \in Parsed : rep[i].targets = Len(ExpectedTargets(ListFile(i)))
  /\ pc = "fetch" =>
       [k \in 1..Len(tasks) |-> Target(tasks[k].ip, tasks[k].port)]
         = ExpectedTargets(ListFile(cur))

\* C16: a range whose list file exists is never reported as an error for want of
\* the summary file: its targets are returned by parse and dispatched for fetching.
C16_SummaryFailureTolerated ==
  \A i \in Ranges :
    Processed(i) /\ MainFile(i) \in DOMAIN files =>
      /\ rep[i].status = "ok"
      /\ rep[i].targets = Len(parse(ListFile(i)))
      /\ cur = i => Len(tasks) = Len(parse(ListFile(i)))

\* C17: every fetch task ends within its timeout whatever its server does, so
\* every fetch phase main enters is left again: no silent server keeps the fetch
\* loop of a range from finishing.
C17_FetchPhaseFinishes == (pc = "fetch") ~> (pc = "wait")

\* the lines that do not start with '#'
NonComment(lines) == SelectSeq(lines, LAMBDA l : l = <<>> \/ Head(l) # "#")

\* the non-comment lines of the outputs of sub-ranges 1..n of range i, in that order
RECURSIVE Concatenated(_, _, _)
Concatenated(fs, i, n) ==
  IF n = 0 THEN <<>> ELSE Concatenated(fs, i, n - 1) \o NonComment(fs[OutPath(i, n)])

AllSucceeded(i) ==
  /\ ~dry_run
  /\ Len(inv[i]) = Len(scan[i].subs)
  /\ \A k \in 1..Len(inv[i]) : inv[i][k].exit = 0

\* C18: when run() returns for a split range whose sub-range scans all succeeded,
\* the records of the main file are the non-comment lines of the sub-range outputs
\* concatenated in sub-range order, and no sub-range output file is left.
C18_MergeLossless ==
  [][\A i \in Ranges :
       scan[i].st = "running" /\ scan'[i].st = "done"
         /\ Len(scan[i].subs) > 1 /\ AllSucceeded(i) =>
           /\ MainFile(i) \in DOMAIN files'
           /\ NonComment(files'[MainFile(i)]) = Concatenated(files, i, Len(scan[i].subs))
           /\ \A k \in 1..Len(scan[i].subs) : OutPath(i, k) \notin DOMAIN files']_vars

C18_Witness ==
  \E i \in Ranges :
    /\ scan[i].st = "done" /\ Len(scan[i].subs) > 1 /\ AllSucceeded(i)
    /\ MainFile(i) \in DOMAIN files
    /\ Len(NonComment(files[MainFile(i)])) = Len(scan[i].subs)
    /\ \A k \in 1..Len(scan[i].subs) : OutPath(i, k) \notin DOMAIN files

Finished(task) == task.st \in {"done", "raised"}

C20_OneRangeAtATime ==
  [][/\ \A i \in Ranges : rep[i].iter = 0 /\ rep'[i].iter > 0 => tasks = <<>> /\ cur = 0
     /\ tasks' # <<>> =>
          /\ cur' \in Ranges /\ rep'[cur'].status = "ok"
          /\ Len(tasks') = rep'[cur'].targets
     /\ tasks # <<>> /\ tasks' # <<>> => cur' = cur]_vars

\* a range is being fetched, one call over and one still queued, while the scan
\* of a range not yet consumed goes on
C20_Witness ==
  /\ pc = "fetch"
  /\ \E t, u \in DOMAIN tasks : Finished(tasks[t]) /\ tasks[u].st = "queued"
  /\ \E j \in Ranges : j # cur /\ rep[j].iter = 0 /\ scan[j].st = "running" /\ scan[j].k = 1

====
